---- MODULE Spec2Model ----
(***************************************************************************)
(* Label selector front-end: the character-level Lexer (lexer.go) and the  *)
(* token-level Parser (parser.go).  Strings are sequences of runes; a rune *)
(* is a one-element model string.  Each parser action performs exactly one *)
(* call of Parser.next and everything the code does with that token.       *)
(***************************************************************************)
EXTENDS Integers, Sequences, FiniteSets, TLC

(***************************************************************************)
(* Runes                                                                   *)
(***************************************************************************)
SP == " "
TAB == "TAB"
NL == "NL"
QUOTE == "QUOTE"
BSL == "BSL"
HEART == "HEART"

\* lexer.go:28  var eof = rune(0): the NUL rune doubles as the end marker
eof == "NUL"

LowerRunes == <<"a","b","c","d","e","f","g","h","i","j","k","l","m",
                "n","o","p","q","r","s","t","u","v","w","x","y","z">>
UpperRunes == <<"A","B","C","D","E","F","G","H","I","J","K","L","M",
                "N","O","P","Q","R","S","T","U","V","W","X","Y","Z">>
DigitRunes == {"0","1","2","3","4","5","6","7","8","9"}

Range(s) == {s[i] : i \in DOMAIN s}

isWhitespace(ch) == ch = SP \/ ch = TAB \/ ch = NL

isValidIdentRune(ch) ==
    \/ ch \in Range(LowerRunes)
    \/ ch \in Range(UpperRunes)
    \/ ch \in DigitRunes
    \/ ch = "_"
    \/ ch = "-"
    \/ ch = "."
    \/ ch = "/"

\* strings.ToUpper, rune by rune
ToUpperRune(ch) ==
    IF \E i \in DOMAIN LowerRunes : LowerRunes[i] = ch
    THEN UpperRunes[CHOOSE i \in DOMAIN LowerRunes : LowerRunes[i] = ch]
    ELSE ch

ToUpper(s) == [i \in DOMAIN s |-> ToUpperRune(s[i])]

(***************************************************************************)
(* Tokens                                                                  *)
(***************************************************************************)
ILLEGAL == "ILLEGAL"
EOF == "EOF"
WS == "WS"
IDENT == "IDENT"
COMMA == "COMMA"
EXCLAMATION_MARK == "EXCLAMATION_MARK"
\* the token IN (IN is a reserved word of TLA+)
TOK_IN == "IN"
NOT == "NOT"
EQUAL == "EQUAL"
NOT_EQUAL == "NOT_EQUAL"
OPENING_BRACKET == "OPENING_BRACKET"
CLOSING_BRACKET == "CLOSING_BRACKET"
\* named by Parser.Parse only; Lexer.Next has no case that returns them
LOWER_THAN == "LOWER_THAN"
LOWER_THAN_EQUAL == "LOWER_THAN_EQUAL"
GREATER_THAN == "GREATER_THAN"
GREATER_THAN_EQUAL == "GREATER_THAN_EQUAL"

(***************************************************************************)
(* Lexer: a bufio.Reader over the input.  r counts the runes consumed,     *)
(* lastRuneSize is the size of the last rune read (-1 when UnreadRune is   *)
(* not possible: after a failed read or after an unread).                  *)
(***************************************************************************)
NewLexer(input) == [buf |-> input, r |-> 0, lastRuneSize |-> -1]

read(s) ==
    IF s.r >= Len(s.buf)
    THEN [ch |-> eof, s |-> [s EXCEPT !.lastRuneSize = -1]]
    ELSE [ch |-> s.buf[s.r + 1],
          s  |-> [s EXCEPT !.r = @ + 1, !.lastRuneSize = 1]]

unread(s) ==
    IF s.lastRuneSize < 0 \/ s.r < s.lastRuneSize
    THEN s
    ELSE [s EXCEPT !.r = @ - s.lastRuneSize, !.lastRuneSize = -1]

Token(tok, lit, s) == [tok |-> tok, lit |-> lit, s |-> s]

RECURSIVE scanWhitespaceLoop(_, _)
scanWhitespaceLoop(s, buf) ==
    LET c == read(s) IN
    IF c.ch = eof THEN [buf |-> buf, s |-> c.s]
    ELSE IF ~isWhitespace(c.ch) THEN [buf |-> buf, s |-> unread(c.s)]
    ELSE scanWhitespaceLoop(c.s, Append(buf, c.ch))

scanWhitespace(s) ==
    LET c == read(s)
        l == scanWhitespaceLoop(c.s, <<c.ch>>)
    IN Token(WS, l.buf, l.s)

RECURSIVE scanIdentLoop(_, _)
scanIdentLoop(s, buf) ==
    LET c == read(s) IN
    IF c.ch = eof THEN [buf |-> buf, s |-> c.s]
    ELSE IF ~isValidIdentRune(c.ch) THEN [buf |-> buf, s |-> unread(c.s)]
    ELSE scanIdentLoop(c.s, Append(buf, c.ch))

Keyword(lit) ==
    CASE ToUpper(lit) = <<"N","O","T">> -> NOT
      [] ToUpper(lit) = <<"I","N">> -> TOK_IN
      [] OTHER -> IDENT

\* a variant that returns the text folded to upper case
scanIdent_folded(s) ==
    LET c == read(s)
        l == scanIdentLoop(c.s, <<c.ch>>)
    IN Token(Keyword(l.buf), ToUpper(l.buf), l.s)

scanIdent(s) ==
    LET c == read(s)
        l == scanIdentLoop(c.s, <<c.ch>>)
    IN Token(Keyword(l.buf), l.buf, l.s)

RECURSIVE scanQuotedIdentLoop(_, _, _)
scanQuotedIdentLoop(s, buf, last) ==
    LET c == read(s) IN
    IF c.ch = eof \/ (c.ch = QUOTE /\ last # BSL)
    THEN [buf |-> buf, s |-> c.s]
    ELSE scanQuotedIdentLoop(c.s, Append(buf, c.ch), c.ch)

scanQuotedIdent(s) ==
    LET l == scanQuotedIdentLoop(s, <<>>, eof)
    IN Token(IDENT, l.buf, l.s)

\* a variant without the s.unread() after a lone '!'
LexExclamation_noUnread(s) ==
    LET c == read(s) IN
    IF c.ch = "=" THEN Token(NOT_EQUAL, <<"!", "=">>, c.s)
    ELSE Token(EXCLAMATION_MARK, <<c.ch>>, c.s)

\* '!' : "!=" or a lone mark whose literal is string(ch) of the inner,
\* shadowing ch, i.e. of the rune read after the mark
LexExclamation(s) ==
    LET c == read(s) IN
    IF c.ch = "=" THEN Token(NOT_EQUAL, <<"!", "=">>, c.s)
    ELSE Token(EXCLAMATION_MARK, <<c.ch>>, unread(c.s))

\* a variant without the s.unread() after a lone '='
LexEqual_noUnread(s) ==
    LET c == read(s) IN
    IF c.ch = "=" THEN Token(EQUAL, <<"=", "=">>, c.s)
    ELSE Token(EQUAL, <<c.ch>>, c.s)

\* '=' : "==" or a lone '=' whose literal is string(ch) of the inner ch
LexEqual(s) ==
    LET c == read(s) IN
    IF c.ch = "=" THEN Token(EQUAL, <<"=", "=">>, c.s)
    ELSE Token(EQUAL, <<c.ch>>, unread(c.s))

\* Lexer.Next
Next(s) ==
    LET c == read(s) IN
    CASE isWhitespace(c.ch) -> scanWhitespace(unread(c.s))
      [] isValidIdentRune(c.ch) -> scanIdent(unread(c.s))
      [] c.ch = QUOTE -> scanQuotedIdent(c.s)
      [] c.ch = eof -> Token(EOF, <<>>, c.s)
      [] c.ch = "!" -> LexExclamation(c.s)
      [] c.ch = "=" -> LexEqual(c.s)
      [] c.ch = "," -> Token(COMMA, <<c.ch>>, c.s)
      [] c.ch = "(" -> Token(OPENING_BRACKET, <<c.ch>>, c.s)
      [] c.ch = ")" -> Token(CLOSING_BRACKET, <<c.ch>>, c.s)
      [] OTHER -> Token(ILLEGAL, <<c.ch>>, c.s)

(***************************************************************************)
(* Parser                                                                  *)
(***************************************************************************)
scan(s) == Next(s)

\* Parser.next: the next non-whitespace token; from is the reader position
\* at which that token starts (an observation, not a field of the code)
RECURSIVE next(_)
next(s) ==
    LET t == scan(s) IN
    IF t.tok = WS THEN next(t.s)
    ELSE [tok |-> t.tok, lit |-> t.lit, s |-> t.s, from |-> s.r]

OperationIn == "in"
OperationNotIn == "notIn"
OperationExists == "exists"
OperationEquals == "equals"
OperationNotExists == "notExist"
OperationNotEquals == "notEquals"
OperationLowerThan == "lowerThan"
OperationGreaterThan == "greaterThan"
OperationLowerThanEqual == "lowerThanEqual"
OperationGreaterThanEqual == "greaterThanEqual"

Requirement(key, value, values, operation) ==
    [Key |-> key, Value |-> value, Values |-> values, Operation |-> operation]

\* error values: the format string and the %s argument
nil == [msg |-> "nil", lit |-> <<>>]
ErrorsNew(msg) == [msg |-> msg, lit |-> <<>>]
Errorf(msg, lit) == [msg |-> msg, lit |-> lit]

ErrIllegalToken == "illegal token"
ErrUnexpectedToken == "unexpected token '%s'"
ErrValueList == "unexpected token in value list (%s)"
ErrExclamation == "expect identifier after exclamation mark"
ErrOpeningBracket == "expect opening bracket after in operator"
ErrRequireIn == "require 'IN' after 'NOT' got '%s'"

\* the switch on the token after the key: which sub-parser runs
BinaryTokens == {EQUAL, NOT_EQUAL, LOWER_THAN, LOWER_THAN_EQUAL,
                 GREATER_THAN, GREATER_THAN_EQUAL}

SubParser(tok) ==
    CASE tok = EQUAL -> "parseEqualRequirement"
      [] tok = NOT_EQUAL -> "parseNotEqualRequirement"
      [] tok = TOK_IN -> "parseInRequirement"
      [] tok = LOWER_THAN -> "parseLowerThanRequirement"
      [] tok = LOWER_THAN_EQUAL -> "parseLowerThanEqualRequirement"
      [] tok = GREATER_THAN -> "parseGreaterThanRequirement"
      [] tok = GREATER_THAN_EQUAL -> "parseGreaterThanEqualRequirement"
      [] tok = NOT -> "parseNotInRequirement"

BinaryParsers == {SubParser(t) : t \in BinaryTokens}

\* the six parse<Op>Requirement functions differ in these two constants
BinaryOperation(fn) ==
    CASE fn = "parseEqualRequirement" -> OperationEquals
      [] fn = "parseNotEqualRequirement" -> OperationNotEquals
      [] fn = "parseLowerThanRequirement" -> OperationLowerThan
      [] fn = "parseLowerThanEqualRequirement" -> OperationLowerThanEqual
      [] fn = "parseGreaterThanRequirement" -> OperationGreaterThan
      [] fn = "parseGreaterThanEqualRequirement" -> OperationGreaterThanEqual

BinaryError(fn) ==
    CASE fn = "parseEqualRequirement" -> "expect identifier after equal operator"
      [] fn = "parseNotEqualRequirement" -> "expect identifier after not-equal operator"
      [] fn = "parseLowerThanRequirement" -> "expect identifier after < operator"
      [] fn = "parseLowerThanEqualRequirement" -> "expect identifier after <= operator"
      [] fn = "parseGreaterThanRequirement" -> "expect identifier after > operator"
      [] fn = "parseGreaterThanEqualRequirement" -> "expect identifier after >= operator"

\* a variant that keeps one copy of a repeated requirement
appendRequirement_dedup(selector, req) ==
    IF req \in Range(selector) THEN selector ELSE Append(selector, req)

\* selector.Requirements = append(selector.Requirements, req)
appendRequirement(selector, req) == Append(selector, req)

\* a variant that keeps one copy of a repeated value
appendValue_dedup(list, lit) ==
    IF lit \in Range(list) THEN list ELSE Append(list, lit)

\* list = append(list, lit)
appendValue(list, lit) == Append(list, lit)

(***************************************************************************)
(* The parser's state as one record: the lexer, the place the parser waits *)
(* for its next token (pc), the locals alive across that call, and the     *)
(* values Parse returns.                                                   *)
(***************************************************************************)
NoToken == [kind |-> "none", lit |-> <<>>, from |-> 0, to |-> 0]

NewParser(input) ==
    [lexer |-> NewLexer(input), pc |-> "Parse", key |-> <<>>,
     caller |-> "Parse", list |-> <<>>, selector |-> <<>>, err |-> nil,
     tok |-> NoToken]

\* p.next() as seen from the parser state
Took(st, n) ==
    [st EXCEPT !.lexer = n.s,
               !.tok = [kind |-> n.tok, lit |-> n.lit,
                        from |-> n.from, to |-> n.s.r]]

\* a variant that goes on with the next clause instead of returning
Return_resumes(st, err) == [st EXCEPT !.pc = "Parse", !.err = err]

\* return selector, err
Return(st, err) == [st EXCEPT !.pc = "done", !.err = err]

\* a variant in which a comma at a clause start is an unexpected token
StepParse_commaFails(st) ==
    LET n == next(st.lexer)
        s1 == Took(st, n)
    IN CASE n.tok = COMMA -> Return(s1, Errorf(ErrUnexpectedToken, n.lit))
         [] n.tok = EOF -> Return(s1, nil)
         [] n.tok = ILLEGAL -> Return(s1, ErrorsNew(ErrIllegalToken))
         [] n.tok = EXCLAMATION_MARK ->
                [s1 EXCEPT !.pc = "parseNotExistsRequirement"]
         [] n.tok = IDENT -> [s1 EXCEPT !.pc = "ParseIdent", !.key = n.lit]
         [] OTHER -> s1

\* Parse, top of the for loop: one token starts a clause
StepParse(st) ==
    LET n == next(st.lexer)
        s1 == Took(st, n)
    IN CASE n.tok = COMMA -> s1
         [] n.tok = EOF -> Return(s1, nil)
         [] n.tok = ILLEGAL -> Return(s1, ErrorsNew(ErrIllegalToken))
         [] n.tok = EXCLAMATION_MARK ->
                [s1 EXCEPT !.pc = "parseNotExistsRequirement"]
         [] n.tok = IDENT -> [s1 EXCEPT !.pc = "ParseIdent", !.key = n.lit]
         [] OTHER -> s1

\* Parse, case IDENT: the token after the key picks the requirement
StepParseIdent(st) ==
    LET n == next(st.lexer)
        s1 == Took(st, n)
    IN CASE n.tok \in BinaryTokens -> [s1 EXCEPT !.pc = SubParser(n.tok)]
         [] n.tok = TOK_IN ->
                [s1 EXCEPT !.pc = SubParser(n.tok), !.caller = "Parse"]
         [] n.tok = NOT -> [s1 EXCEPT !.pc = SubParser(n.tok)]
         [] n.tok \in {COMMA, EOF} ->
                [s1 EXCEPT !.pc = "Parse",
                           !.selector = appendRequirement(@,
                               Requirement(st.key, <<>>, <<>>, OperationExists))]
         [] OTHER -> Return(s1, Errorf(ErrUnexpectedToken, n.lit))

\* a variant that stores the operand as the one element of Values
StepBinary_storesValues(st) ==
    LET n == next(st.lexer)
        s1 == Took(st, n)
    IN IF n.tok # IDENT
       THEN Return(s1, ErrorsNew(BinaryError(st.pc)))
       ELSE [s1 EXCEPT !.pc = "Parse",
                       !.selector = appendRequirement(@,
                           Requirement(st.key, <<>>, <<n.lit>>,
                                       BinaryOperation(st.pc)))]

\* a variant without the test tok != IDENT
StepBinary_anyToken(st) ==
    LET n == next(st.lexer)
        s1 == Took(st, n)
    IN [s1 EXCEPT !.pc = "Parse",
                  !.selector = appendRequirement(@,
                      Requirement(st.key, n.lit, <<>>, BinaryOperation(st.pc)))]

\* parseEqualRequirement .. parseGreaterThanEqualRequirement
StepBinary(st) ==
    LET n == next(st.lexer)
        s1 == Took(st, n)
    IN IF n.tok # IDENT
       THEN Return(s1, ErrorsNew(BinaryError(st.pc)))
       ELSE [s1 EXCEPT !.pc = "Parse",
                       !.selector = appendRequirement(@,
                           Requirement(st.key, n.lit, <<>>, BinaryOperation(st.pc)))]

\* parseNotExistsRequirement
StepNotExists(st) ==
    LET n == next(st.lexer)
        s1 == Took(st, n)
    IN IF n.tok # IDENT
       THEN Return(s1, ErrorsNew(ErrExclamation))
       ELSE [s1 EXCEPT !.pc = "Parse",
                       !.selector = appendRequirement(@,
                           Requirement(n.lit, <<>>, <<>>, OperationNotExists))]

\* parseNotInRequirement up to its call of parseInRequirement
StepNotIn(st) ==
    LET n == next(st.lexer)
        s1 == Took(st, n)
    IN IF n.tok # TOK_IN
       THEN Return(s1, Errorf(ErrRequireIn, n.lit))
       ELSE [s1 EXCEPT !.pc = "parseInRequirement",
                       !.caller = "parseNotInRequirement"]

\* parseInRequirement up to its call of parseIdentList
StepIn(st) ==
    LET n == next(st.lexer)
        s1 == Took(st, n)
    IN IF n.tok # OPENING_BRACKET
       THEN Return(s1, ErrorsNew(ErrOpeningBracket))
       ELSE [s1 EXCEPT !.pc = "parseIdentList", !.list = <<>>]

\* a variant without parseNotInRequirement's req.Operation = OperationNotIn
ListOperation_alwaysIn(caller) == OperationIn

\* the Operation of the requirement a finished value list belongs to:
\* parseInRequirement sets In, parseNotInRequirement overwrites it
ListOperation(caller) ==
    IF caller = "parseNotInRequirement" THEN OperationNotIn ELSE OperationIn

\* a variant whose loop goes on after any token that is no identifier and
\* no closing bracket
StepIdentList_skipsOthers(st) ==
    LET n == next(st.lexer)
        s1 == Took(st, n)
    IN CASE n.tok = CLOSING_BRACKET ->
                [s1 EXCEPT !.pc = "Parse", !.list = <<>>,
                           !.selector = appendRequirement(@,
                               Requirement(st.key, <<>>, st.list,
                                           ListOperation(st.caller)))]
         [] n.tok = IDENT -> [s1 EXCEPT !.list = appendValue(@, n.lit)]
         [] OTHER -> s1

\* one iteration of parseIdentList; on ')' the returns through
\* parseInRequirement (and parseNotInRequirement) to Parse's append
StepIdentList(st) ==
    LET n == next(st.lexer)
        s1 == Took(st, n)
    IN CASE n.tok = CLOSING_BRACKET ->
                [s1 EXCEPT !.pc = "Parse", !.list = <<>>,
                           !.selector = appendRequirement(@,
                               Requirement(st.key, <<>>, st.list,
                                           ListOperation(st.caller)))]
         [] n.tok = COMMA -> s1
         [] n.tok = IDENT -> [s1 EXCEPT !.list = appendValue(@, n.lit)]
         [] OTHER -> Return([s1 EXCEPT !.list = <<>>],
                            Errorf(ErrValueList, n.lit))

Step(st) ==
    CASE st.pc = "Parse" -> StepParse(st)
      [] st.pc = "ParseIdent" -> StepParseIdent(st)
      [] st.pc \in BinaryParsers -> StepBinary(st)
      [] st.pc = "parseNotExistsRequirement" -> StepNotExists(st)
      [] st.pc = "parseNotInRequirement" -> StepNotIn(st)
      [] st.pc = "parseInRequirement" -> StepIn(st)
      [] st.pc = "parseIdentList" -> StepIdentList(st)
      [] OTHER -> st

RECURSIVE Run(_)
Run(st) == IF st.pc = "done" THEN st ELSE Run(Step(st))

\* ParseString: what Parse returns on the text str
ParseString(str) ==
    LET st == Run(NewParser(str))
    IN [selector |-> st.selector, err |-> st.err]

(***************************************************************************)
(* Inputs.  gen records how the input text was built; the parser never     *)
(* reads it.  Five families of texts:                                      *)
(*   "clauses": well-formed clauses of every form, written tight or        *)
(*              spaced, joined by one comma;                               *)
(*   "commas":  well-formed clauses joined by commas or by a space only,   *)
(*              with extra commas in front, behind or next to a comma;     *)
(*   "padded":  lexemes joined by one space, the whitespace at one         *)
(*              boundary replaced by another gap;                          *)
(*   "raw":     any concatenation of single runes and the two keywords     *)
(*              (each written after a space);                              *)
(*   "broken":  well-formed clauses, tight, the last one cut off at one    *)
(*              position or with one stray rune inserted there.            *)
(***************************************************************************)
MaxClauses == 2
MaxVals == 2
MaxExtra == 1
MaxLexemes == 3
MaxPieces == 3
MaxBroken == 2

RECURSIVE Concat(_)
Concat(ss) == IF ss = <<>> THEN <<>> ELSE Head(ss) \o Concat(Tail(ss))

RECURSIVE Join(_, _)
Join(ss, sep) ==
    IF ss = <<>> THEN <<>>
    ELSE IF Len(ss) = 1 THEN Head(ss)
    ELSE Head(ss) \o sep \o Join(Tail(ss), sep)

Repeat(x, n) == Concat([i \in 1..n |-> x])

SeqsUpTo(S, n) == UNION {[1..k -> S] : k \in 0..n}

\* an identifier that can be written without quotes
Bare(x) == x # <<>> /\ (\A i \in DOMAIN x : isValidIdentRune(x[i]))
                    /\ Keyword(x) = IDENT

RenderIdent(x) == IF Bare(x) THEN x ELSE <<QUOTE>> \o x \o <<QUOTE>>

\* the identifiers of an input are dealt from a tape, in textual order
RepeatTape == << <<"a">> >>
MixedTape == << <<"f","o","o">>, <<"x"," ","y">>, <<"B","5">> >>
CaseTape == << <<"B","5">>, <<"I","n","_","-",".","/">> >>
Tapes == {RepeatTape, MixedTape, CaseTape}

TapeAt(tape, i) == tape[((i - 1) % Len(tape)) + 1]

OrderingOps == {"<", "<=", ">", ">="}
BinaryOps == {"=", "==", "!="} \cup OrderingOps
SetOps == {"in", "notin"}

Forms == [op : {"exists", "notexists"}, n : {0}]
            \cup [op : BinaryOps, n : {1}]
            \cup [op : SetOps, n : 0..MaxVals]

CommaForms == {f \in Forms : f.op \notin OrderingOps \cup {"=="} /\ f.n <= 1}

\* the clauses of an input: each form with its identifiers filled in
RECURSIVE Concrete(_, _, _)
Concrete(forms, tape, used) ==
    IF forms = <<>> THEN <<>>
    ELSE LET f == Head(forms)
             c == [op |-> f.op, key |-> TapeAt(tape, used + 1),
                   vals |-> [j \in 1..f.n |-> TapeAt(tape, used + 1 + j)]]
         IN <<c>> \o Concrete(Tail(forms), tape, used + 1 + f.n)

OpText(op) ==
    CASE op = "=" -> <<"=">>
      [] op = "==" -> <<"=", "=">>
      [] op = "!=" -> <<"!", "=">>
      [] op = "<" -> <<"<">>
      [] op = "<=" -> <<"<", "=">>
      [] op = ">" -> <<">">>
      [] op = ">=" -> <<">", "=">>

\* sp is the optional whitespace of the style: <<>> (tight) or one space
RenderList(vals, sp) ==
    <<"(">> \o Join([j \in DOMAIN vals |-> RenderIdent(vals[j])], <<",">> \o sp)
            \o <<")">>

RenderClause(c, sp) ==
    CASE c.op = "exists" -> RenderIdent(c.key)
      [] c.op = "notexists" -> <<"!">> \o RenderIdent(c.key)
      [] c.op \in BinaryOps ->
            RenderIdent(c.key) \o sp \o OpText(c.op) \o sp \o RenderIdent(c.vals[1])
      [] c.op = "in" ->
            RenderIdent(c.key) \o <<SP, "i", "n">> \o sp \o RenderList(c.vals, sp)
      [] c.op = "notin" ->
            RenderIdent(c.key) \o <<SP, "n", "o", "t", SP, "i", "n">> \o sp
                \o RenderList(c.vals, sp)

StyleSpace(style) == IF style = "spaced" THEN <<SP>> ELSE <<>>

NoExtra == [lead |-> 0, mid |-> 0, trail |-> 0]

Extras == {NoExtra}
            \cup {[lead |-> k, mid |-> 0, trail |-> 0] : k \in 1..MaxExtra}
            \cup {[lead |-> 0, mid |-> k, trail |-> 0] : k \in 1..MaxExtra}
            \cup {[lead |-> 0, mid |-> 0, trail |-> k] : k \in 1..MaxExtra}
            \cup {[lead |-> k, mid |-> k, trail |-> k] : k \in 1..MaxExtra}

\* the text of a clause sequence
RenderClauses(clauses, style, comma, extra) ==
    LET sp == StyleSpace(style)
        sep == IF comma THEN Repeat(<<",">>, 1 + extra.mid) \o sp ELSE <<SP>>
    IN Repeat(<<",">>, extra.lead)
         \o Join([i \in DOMAIN clauses |-> RenderClause(clauses[i], sp)], sep)
         \o Repeat(<<",">>, extra.trail)

Lexemes == { <<"a">>, <<"i","n">>, <<"n","o","t">>, <<"=">>, <<"!">>,
             <<",">>, <<"(">> }

Gaps == { <<>>, <<TAB>>, <<SP, SP>> }

\* a boundary number no boundary has: the reference rendering
NoBoundary == 0 - 1

\* lexemes joined by one space, except that the boundary numbered at
\* (0 = before the first lexeme, Len(lex) = after the last) holds gap
RECURSIVE RenderPadded(_, _, _, _)
RenderPadded(lex, at, gap, i) ==
    LET ws == IF i = at THEN gap
              ELSE IF i = 0 \/ i = Len(lex) THEN <<>> ELSE <<SP>>
    IN IF i = Len(lex) THEN ws
       ELSE ws \o lex[i + 1] \o RenderPadded(lex, at, gap, i + 1)

Pieces == { <<"a">>, <<SP,"i","n">>, <<SP,"n","o","t">>, <<"=">>, <<"!">>, <<"<">>,
            <<">">>, <<",">>, <<"(">>, <<")">>, <<SP>>, <<QUOTE>>, <<BSL>>,
            <<"]">>, <<HEART>>, <<eof>> }

BreakPieces == { <<"a">>, <<"=">>, <<"!">>, <<",">>, <<"(">>, <<"]">>, <<eof>> }

BrokenForms == {f \in Forms : f.op \in {"=", "==", "!="} \cup SetOps /\ f.n = 1}

NoGen == [kind |-> "none", forms |-> <<>>, tape |-> <<>>, style |-> "tight",
          comma |-> TRUE, extra |-> NoExtra, lex |-> <<>>, at |-> 0,
          gap |-> <<>>, pieces |-> <<>>, cut |-> FALSE]

\* the well-formed text a broken input is made from
WholeText(forms) ==
    RenderClauses(Concrete(forms, RepeatTape, 0), "tight", TRUE, NoExtra)

\* text cut off after at runes, or with the rune of pieces inserted there
RenderBroken(text, at, pieces, cut) ==
    IF cut THEN SubSeq(text, 1, at)
    ELSE SubSeq(text, 1, at) \o Concat(pieces) \o SubSeq(text, at + 1, Len(text))

\* the identifiers of CaseTape are dealt to bare keys only
ClauseGens ==
    { g \in { [NoGen EXCEPT !.kind = "clauses", !.forms = fs, !.tape = t,
                            !.style = st] :
                fs \in SeqsUpTo(Forms, MaxClauses) \ {<<>>}, t \in Tapes,
                st \in {"tight", "spaced"} } :
        g.tape = CaseTape => \A i \in DOMAIN g.forms : g.forms[i].op = "exists" }

CommaGens ==
    { g \in { [NoGen EXCEPT !.kind = "commas", !.forms = fs, !.tape = MixedTape,
                            !.comma = cm, !.extra = ex] :
                fs \in SeqsUpTo(CommaForms, MaxClauses) \ {<<>>},
                cm \in BOOLEAN, ex \in Extras } :
        ~g.comma => g.extra.mid = 0 }

PaddedGens ==
    { g \in { [NoGen EXCEPT !.kind = "padded", !.lex = lx, !.at = a, !.gap = gp] :
                lx \in SeqsUpTo(Lexemes, MaxLexemes) \ {<<>>},
                a \in 0..MaxLexemes, gp \in Gaps } :
        g.at <= Len(g.lex) }

RawGens ==
    { [NoGen EXCEPT !.kind = "raw", !.pieces = ps] :
        ps \in SeqsUpTo(Pieces, MaxPieces) }

\* the break lies in the last clause
BrokenGens ==
    UNION { { [NoGen EXCEPT !.kind = "broken", !.forms = fs, !.tape = RepeatTape,
                            !.at = a, !.pieces = ps, !.cut = (ps = <<>>)] :
                a \in Len(WholeText(SubSeq(fs, 1, Len(fs) - 1)))..Len(WholeText(fs)),
                ps \in {<<>>} \cup {<<b>> : b \in BreakPieces} } :
            fs \in SeqsUpTo(BrokenForms, MaxBroken) \ {<<>>} }

Clauses(g) == Concrete(g.forms, g.tape, 0)

Text(g) ==
    CASE g.kind \in {"clauses", "commas"} ->
            RenderClauses(Clauses(g), g.style, g.comma, g.extra)
      [] g.kind = "padded" -> RenderPadded(g.lex, g.at, g.gap, 0)
      [] g.kind = "raw" -> Concat(g.pieces)
      [] g.kind = "broken" ->
            RenderBroken(WholeText(g.forms), g.at, g.pieces, g.cut)

(***************************************************************************)
(* The state machine: one parser bound to one input                        *)
(***************************************************************************)
VARIABLES lexer, pc, key, caller, list, selector, err, tok, gen

vars == <<lexer, pc, key, caller, list, selector, err, tok, gen>>

Cur == [lexer |-> lexer, pc |-> pc, key |-> key, caller |-> caller,
        list |-> list, selector |-> selector, err |-> err, tok |-> tok]

Becomes(st) ==
    /\ lexer' = st.lexer
    /\ pc' = st.pc
    /\ key' = st.key
    /\ caller' = st.caller
    /\ list' = st.list
    /\ selector' = st.selector
    /\ err' = st.err
    /\ tok' = st.tok
    /\ UNCHANGED gen

\* ParseString(Text(g)) up to the first call of Parser.next
Starts(g) ==
    LET st == NewParser(Text(g)) IN
    /\ gen = g
    /\ lexer = st.lexer
    /\ pc = st.pc
    /\ key = st.key
    /\ caller = st.caller
    /\ list = st.list
    /\ selector = st.selector
    /\ err = st.err
    /\ tok = st.tok

Init == \E g \in ClauseGens : Starts(g)
InitCommas == \E g \in CommaGens : Starts(g)
InitPadded == \E g \in PaddedGens : Starts(g)
InitRaw == \E g \in RawGens : Starts(g)
InitBroken == \E g \in BrokenGens : Starts(g)

Parse == pc = "Parse" /\ Becomes(StepParse(Cur))

ParseIdent == pc = "ParseIdent" /\ Becomes(StepParseIdent(Cur))

parseBinaryRequirement == pc \in BinaryParsers /\ Becomes(StepBinary(Cur))

parseNotExistsRequirement ==
    pc = "parseNotExistsRequirement" /\ Becomes(StepNotExists(Cur))

parseNotInRequirement ==
    pc = "parseNotInRequirement" /\ Becomes(StepNotIn(Cur))

parseInRequirement == pc = "parseInRequirement" /\ Becomes(StepIn(Cur))

parseIdentList == pc = "parseIdentList" /\ Becomes(StepIdentList(Cur))

ParserStep ==
    \/ Parse
    \/ ParseIdent
    \/ parseBinaryRequirement
    \/ parseNotExistsRequirement
    \/ parseNotInRequirement
    \/ parseInRequirement
    \/ parseIdentList

Spec == Init /\ [][ParserStep]_vars
SpecCommas == InitCommas /\ [][ParserStep]_vars
SpecPadded == InitPadded /\ [][ParserStep]_vars
SpecRaw == InitRaw /\ [][ParserStep]_vars
SpecBroken == InitBroken /\ [][ParserStep]_vars

\* a step can be taken: Parse has not returned and the step changes the
\* state (ParserStep has one successor, Step(Cur) with gen unchanged)
ParserStepEnabled == pc # "done" /\ Step(Cur) # Cur

\* a call of Parse runs on, no step of it waits for anything: weak
\* fairness of ParserStep, its enabling condition written out
ParserStepFair == []<>(~ParserStepEnabled) \/ []<><<ParserStep>>_vars

SpecRawFair == SpecRaw /\ ParserStepFair

Done == pc = "done"

(***************************************************************************)
(* What the claims expect, stated from the input's construction            *)
(***************************************************************************)
ExpectedOperation(op) ==
    CASE op = "exists" -> OperationExists
      [] op = "notexists" -> OperationNotExists
      [] op \in {"=", "=="} -> OperationEquals
      [] op = "!=" -> OperationNotEquals
      [] op = "<" -> OperationLowerThan
      [] op = "<=" -> OperationLowerThanEqual
      [] op = ">" -> OperationGreaterThan
      [] op = ">=" -> OperationGreaterThanEqual
      [] op = "in" -> OperationIn
      [] op = "notin" -> OperationNotIn

ExpectedRequirement(c) ==
    [Key |-> c.key,
     Value |-> IF c.op \in BinaryOps THEN c.vals[1] ELSE <<>>,
     Values |-> IF c.op \in SetOps THEN c.vals ELSE <<>>,
     Operation |-> ExpectedOperation(c.op)]

ExpectedSelector(g) ==
    [i \in DOMAIN g.forms |-> ExpectedRequirement(Clauses(g)[i])]

OneClause(ops) ==
    /\ Done
    /\ gen.kind = "clauses"
    /\ Len(gen.forms) = 1
    /\ gen.forms[1].op \in ops

\* C1: a comma-separated sequence of well-formed clauses (bare key, !key,
\* key=value, key!=value, key in (...), key not in (...)) parses with a nil
\* error to exactly one requirement per clause, in textual order, repeated
\* clauses kept.
C1_OneRequirementPerClause ==
    (/\ Done
     /\ gen.kind = "clauses"
     /\ \A i \in DOMAIN gen.forms :
            gen.forms[i].op \in {"exists", "notexists", "=", "!=", "in", "notin"})
    => (err = nil /\ selector = ExpectedSelector(gen))

C1_Witness ==
    /\ Done
    /\ gen.kind = "clauses"
    /\ gen.tape = RepeatTape
    /\ Len(gen.forms) = 2
    /\ gen.forms[1] = gen.forms[2]
    /\ gen.forms[1].op = "!="
    /\ err = nil
    /\ Len(selector) = 2
    /\ selector[1] = selector[2]

\* C2: `key < value`, `key <= value`, `key > value`, `key >= value` each
\* parse without error to one requirement with that key, the operation
\* LowerThan, LowerThanEqual, GreaterThan, GreaterThanEqual, the operand's
\* text as Value and empty Values.
C2_OrderingOperators ==
    OneClause(OrderingOps) => (err = nil /\ selector = ExpectedSelector(gen))

\* C3: `key in (v1, ..., vn)`, n >= 0, parses without error to one In
\* requirement with that key, the values in textual order with duplicates
\* kept, and an empty Value; `key in ()` gives an empty value sequence.
C3_InValues ==
    OneClause({"in"}) =>
        /\ err = nil
        /\ selector = << Requirement(Clauses(gen)[1].key, <<>>,
                                     Clauses(gen)[1].vals, OperationIn) >>

C3_Witness ==
    /\ OneClause({"in"})
    /\ gen.tape = RepeatTape
    /\ gen.forms[1].n = 2
    /\ err = nil
    /\ Len(selector) = 1
    /\ selector[1].Values = << <<"a">>, <<"a">> >>

\* C4: `key not in (L)` parses without error to one requirement equal to
\* the one `key in (L)` gives, except that its Operation is NotIn.
C4_NotInLikeIn ==
    OneClause({"notin"}) =>
        LET asIn == ParseString(Text([gen EXCEPT !.forms[1].op = "in"]))
        IN /\ err = nil
           /\ asIn.err = nil
           /\ Len(selector) = 1
           /\ Len(asIn.selector) = 1
           /\ asIn.selector[1].Operation = OperationIn
           /\ selector[1] = [asIn.selector[1] EXCEPT !.Operation = OperationNotIn]
           /\ selector[1].Values = Clauses(gen)[1].vals
           /\ selector[1].Value = <<>>

C4_Witness ==
    /\ OneClause({"notin"})
    /\ gen.tape = MixedTape
    /\ gen.forms[1].n = 2
    /\ err = nil
    /\ Len(selector) = 1
    /\ selector[1].Operation = OperationNotIn
    /\ selector[1].Values = << <<"x", " ", "y">>, <<"B", "5">> >>

\* C5: `key=value` and `key==value` parse to identical results: a nil error
\* and one Equals requirement with the same key and the same value; '='
\* consumes no rune of the value.
C5_EqualAliases ==
    OneClause({"="}) =>
        LET twice == ParseString(Text([gen EXCEPT !.forms[1].op = "=="]))
        IN /\ err = nil
           /\ twice.err = nil
           /\ selector = twice.selector
           /\ selector = << Requirement(Clauses(gen)[1].key,
                                        Clauses(gen)[1].vals[1], <<>>,
                                        OperationEquals) >>

C5_Witness ==
    /\ OneClause({"="})
    /\ gen.tape = MixedTape
    /\ gen.style = "tight"
    /\ err = nil
    /\ Len(selector) = 1
    /\ selector[1].Key = <<"f", "o", "o">>
    /\ selector[1].Value = <<"x", " ", "y">>

\* the kinds of the non-whitespace tokens of a text, up to the first EOF
RECURSIVE TokenKinds(_)
TokenKinds(s) ==
    LET n == next(s) IN
    IF n.tok = EOF THEN <<>> ELSE <<n.tok>> \o TokenKinds(n.s)

Reference(g) == RenderPadded(g.lex, NoBoundary, <<>>, 0)

\* C6: two inputs that differ only in the spaces or tabs around tokens,
\* both with the same sequence of non-whitespace tokens, give the same
\* parsed result: the same selector and the same error.
C6_WhitespaceInvariance ==
    (/\ Done
     /\ gen.kind = "padded"
     /\ TokenKinds(NewLexer(Text(gen))) = TokenKinds(NewLexer(Reference(gen))))
    => [selector |-> selector, err |-> err] = ParseString(Reference(gen))

\* C7: for an input that parses without error, extra commas before the
\* first clause, after the last clause or next to a top-level comma give a
\* nil error and exactly the same requirements.
C7_ExtraCommas ==
    (Done /\ gen.kind = "commas") =>
        LET plain == ParseString(Text([gen EXCEPT !.extra = NoExtra]))
        IN plain.err = nil => (err = nil /\ selector = plain.selector)

C7_Witness ==
    /\ Done
    /\ gen.kind = "commas"
    /\ gen.comma
    /\ gen.extra = [lead |-> 1, mid |-> 1, trail |-> 1]
    /\ Len(gen.forms) = 2
    /\ err = nil
    /\ Len(selector) = 2

OtherStartKinds ==
    {EQUAL, NOT_EQUAL, TOK_IN, NOT, OPENING_BRACKET, CLOSING_BRACKET,
     LOWER_THAN, LOWER_THAN_EQUAL, GREATER_THAN, GREATER_THAN_EQUAL}

\* C8: a clause whose first token is none of Comma, EndOfInput, Illegal,
\* ExclamationMark, Identifier makes Parse fail there with the
\* 'unexpected token' failure.
C8_UnexpectedClauseStart ==
    [][(pc = "Parse" /\ tok'.kind \in OtherStartKinds)
        => (pc' = "done" /\ err'.msg = ErrUnexpectedToken)]_vars

\* C9: Parse returns a nil error only if consecutive requirements are
\* separated by a top-level comma: clauses separated by whitespace only
\* are rejected with an error.
C9_CommaRequired ==
    (Done /\ gen.kind = "commas" /\ ~gen.comma /\ Len(gen.forms) >= 2)
    => err # nil

\* the text of the last token as it stands in the input
TokenText == SubSeq(lexer.buf, tok.from + 1, tok.to)

\* C10: the error "unexpected token '<literal>'" carries exactly the
\* unexpected token's own text as it appears in the input.
C10_UnexpectedLiteral ==
    (Done /\ err.msg = ErrUnexpectedToken /\ Head(TokenText) # QUOTE)
    => err.lit = TokenText

\* some prefix of buf that ends at or before upto parses, as a text of its
\* own, without error to exactly the requirements sel
BuiltFromPrefix(buf, upto, sel) ==
    \E p \in 0..upto :
        ParseString(SubSeq(buf, 1, p)) = [selector |-> sel, err |-> nil]

\* C11: every failure is terminal and keeps what was built: the step that
\* fails returns at once with a non-nil error and the selector unchanged,
\* which holds exactly the requirements of the clauses completed before
\* the failing one, in order; the failing clause adds nothing and nothing
\* is read or appended after the failure.
C11_FailureIsTerminal ==
    [][/\ pc # "done"
       /\ err = nil
       /\ SubSeq(selector', 1, Len(selector)) = selector
       /\ err' # nil => (pc' = "done" /\ selector' = selector
                          /\ BuiltFromPrefix(lexer'.buf, tok'.from, selector'))]_vars

C11_Witness ==
    /\ Done
    /\ gen.kind = "broken"
    /\ Len(gen.forms) = 2
    /\ err # nil
    /\ Len(selector) = 1
    /\ tok.from > 0
    /\ lexer.r < Len(lexer.buf)

\* C12: every requirement of the selector Parse returns, with or without
\* an error, has a non-empty Key, for every input, double-quoted
\* identifiers included.
C12_NonEmptyKey ==
    \A i \in DOMAIN selector : selector[i].Key # <<>>

\* the place of the first '"' at or after j that is not immediately
\* preceded by a backslash; Len(buf) + 1 when there is none
RECURSIVE ClosingQuote(_, _)
ClosingQuote(buf, j) ==
    IF j > Len(buf) \/ (buf[j] = QUOTE /\ buf[j - 1] # BSL) THEN j
    ELSE ClosingQuote(buf, j + 1)

\* the last token starts at a double quote
StartsQuoted ==
    /\ tok.kind # "none"
    /\ tok.from < Len(lexer.buf)
    /\ lexer.buf[tok.from + 1] = QUOTE

\* C13: a double-quoted literal is one Identifier whose text is exactly
\* the runes between the opening quote and the first following '"' not
\* immediately preceded by a backslash, verbatim; without a closing quote
\* the literal runs to the end of the input, and no error is reported.
C13_QuotedLiteral ==
    StartsQuoted =>
        LET close == ClosingQuote(lexer.buf, tok.from + 2)
        IN /\ tok.kind = IDENT
           /\ tok.lit = SubSeq(lexer.buf, tok.from + 2, close - 1)
           /\ tok.to = IF close > Len(lexer.buf) THEN Len(lexer.buf) ELSE close

NoFamily(ch) ==
    /\ ~isWhitespace(ch)
    /\ ~isValidIdentRune(ch)
    /\ ch \notin {QUOTE, "!", "=", "<", ">", ",", "(", ")"}

\* C15: when the rune at a clause start belongs to no token family, the
\* token is Illegal with that one rune as literal and Parse stops at once
\* with the error "illegal token", the requirements so far unchanged.
C15_IllegalClauseStart ==
    [][(/\ pc = "Parse"
        /\ tok'.from < Len(lexer.buf)
        /\ NoFamily(lexer.buf[tok'.from + 1]))
       => (/\ tok'.kind = ILLEGAL
           /\ tok'.lit = <<lexer.buf[tok'.from + 1]>>
           /\ pc' = "done"
           /\ err' = ErrorsNew("illegal token")
           /\ selector' = selector)]_vars

\* the longest run of identifier runes of buf that starts at place j
RECURSIVE IdentRun(_, _)
IdentRun(buf, j) ==
    IF j > Len(buf) \/ ~isValidIdentRune(buf[j]) THEN <<>>
    ELSE <<buf[j]>> \o IdentRun(buf, j + 1)

\* the text of an Identifier token that starts after from runes of buf
IdentText(buf, from, lit) ==
    IF buf[from + 1] = QUOTE THEN lit ELSE IdentRun(buf, from + 1)

\* C16: in a clause that starts with '!', the mark takes no rune of what
\* follows it; if the next non-whitespace token is an Identifier, Parse
\* appends one NotExists requirement whose Key is the identifier's
\* complete text, Value and Values empty; on any other token Parse fails
\* with "expect identifier after exclamation mark".
C16_NotExists ==
    [][pc = "parseNotExistsRequirement" =>
        /\ lexer.r = tok.from + 1
        /\ tok'.from >= tok.from + 1
        /\ (tok.from + 1 < Len(lexer.buf)
                /\ isValidIdentRune(lexer.buf[tok.from + 2]))
            => (tok'.from = tok.from + 1 /\ tok'.kind \in {IDENT, TOK_IN, NOT})
        /\ IF tok'.kind = IDENT
           THEN /\ pc' = "Parse"
                /\ err' = nil
                /\ selector' = Append(selector,
                       Requirement(IdentText(lexer.buf, tok'.from, tok'.lit),
                                   <<>>, <<>>, OperationNotExists))
           ELSE /\ pc' = "done"
                /\ err' = ErrorsNew("expect identifier after exclamation mark")
                /\ selector' = selector]_vars

C16_Witness ==
    /\ Done
    /\ gen.kind = "raw"
    /\ lexer.buf = <<"!", "a", "a">>
    /\ err = nil
    /\ selector = << Requirement(<<"a", "a">>, <<>>, <<>>, OperationNotExists) >>

Literal(buf, t) ==
    CASE t.kind = EOF -> <<>>
      [] t.kind \in {IDENT, TOK_IN, NOT} -> IdentText(buf, t.from, t.lit)
      [] OTHER -> SubSeq(buf, t.from + 1, t.to)

\* C18: when `in` or `not in` is not followed by '(' Parse fails with
\* "expect opening bracket after in operator"; a token of the bracketed
\* list that is no Identifier, Comma or ClosingBracket, the end of input
\* included, makes Parse fail with "unexpected token in value list
\* (<literal>)" carrying that token's literal; no requirement is added.
C18_MalformedSet ==
    [][/\ pc = "parseInRequirement" =>
            IF tok'.kind = OPENING_BRACKET
            THEN pc' = "parseIdentList" /\ err' = nil /\ selector' = selector
            ELSE /\ pc' = "done"
                 /\ err' = ErrorsNew("expect opening bracket after in operator")
                 /\ selector' = selector
       /\ (pc = "parseIdentList"
            /\ tok'.kind \notin {IDENT, COMMA, CLOSING_BRACKET}) =>
            /\ pc' = "done"
            /\ err' = Errorf("unexpected token in value list (%s)",
                             Literal(lexer.buf, tok'))
            /\ selector' = selector]_vars

\* C19: when the key is followed by `not` and the next non-whitespace
\* token is not `in`, Parse fails with "require 'IN' after 'NOT' got
\* '<literal>'" carrying the literal of the token found instead, and no
\* requirement is added.
C19_MalformedNot ==
    [][pc = "parseNotInRequirement" =>
        /\ tok.kind = NOT
        /\ IF tok'.kind = TOK_IN
           THEN pc' = "parseInRequirement" /\ err' = nil /\ selector' = selector
           ELSE /\ pc' = "done"
                /\ err' = Errorf("require 'IN' after 'NOT' got '%s'",
                                 Literal(lexer.buf, tok'))
                /\ selector' = selector]_vars

ValueOperations ==
    {OperationEquals, OperationNotEquals, OperationLowerThan,
     OperationLowerThanEqual, OperationGreaterThan, OperationGreaterThanEqual}

C21_EndOfInput ==
    [][/\ tok'.kind = EOF <=> tok'.from = Len(lexer.buf)
       /\ tok'.kind = EOF => tok'.lit = <<>>
       /\ tok.kind = EOF => tok'.kind = EOF
       /\ (pc' = "done" /\ err' = nil) => lexer'.r = Len(lexer.buf)]_vars

\* C22: for every finite input Parse terminates and returns a selector
\* with a nil error or with an error: every step on input that is not
\* exhausted consumes at least one rune and none gives a rune back, a
\* token on input that is not exhausted holds at least one rune, and at
\* the end of the input the top-level loop and the loop of
\* parseIdentList return (an unterminated value list or quoted literal
\* does not loop).
C22_Terminates ==
    /\ <>Done
    /\ [][/\ lexer'.r >= lexer.r
          /\ lexer'.r <= Len(lexer.buf)
          /\ lexer.r < Len(lexer.buf) => lexer'.r > lexer.r
          /\ tok'.from < Len(lexer.buf) => tok'.to > tok'.from
          /\ (tok'.kind = EOF /\ pc \in {"Parse", "parseIdentList"})
                => pc' = "done"]_vars

C22_Witness ==
    /\ Done
    /\ gen.kind = "raw"
    /\ lexer.buf = <<"a", SP, "i", "n", "(">>
    /\ lexer.r = Len(lexer.buf)
    /\ err = Errorf("unexpected token in value list (%s)", <<>>)
    /\ selector = <<>>

====
